---- MODULE Spec2Model ----
(***************************************************************************)
(* Model of the numerical exercises of algorithms_py:                      *)
(*   fft_recursivo.py   fft(x), the recursive radix-2 FFT                   *)
(*   pisolg.py          pisolg(N), floor of the base-2 logarithm            *)
(*   rec_soma.py        rec_soma(n, A)                                      *)
(*   rec_soma_esqdir.py rec_soma_esqdir(k, n, A)                            *)
(*                                                                         *)
(* fft is modelled twice from the same helpers: as a machine that runs the *)
(* recursion on an explicit call stack (one action per piece of code       *)
(* between two calls), and as the recursive operator fft.                  *)
(* pisolg is a machine with one action per loop iteration; rec_soma and    *)
(* rec_soma_esqdir are recursive operators applied to drawn arguments.     *)
(*                                                                         *)
(* Complex numbers are exact: a value is an element of Z[w], w the primitive*)
(* W-th root of unity exp(2*pi*i/W), written as its H = W/2 integer         *)
(* coordinates on 1, w, ..., w^(H-1), with w^H = -1.  Every twiddle factor  *)
(* exp(-2*pi*i*k/N) of a power of two N <= W is a power of w, so the        *)
(* arithmetic of fft on such samples is exact; the rounding of the          *)
(* double-precision arithmetic of numpy is not modelled.                    *)
(***************************************************************************)
EXTENDS Integers, Sequences, FiniteSets, TLC

\* ---------------------------------------------------------------- bounds
\* longest input of fft whose samples are Gaussian integers (these inputs
\* have the lengths on which fft computes: 0, 1 and the powers of two)
MaxLen == 4
\* largest coordinate of a Gaussian-integer sample
MaxV == 1
\* longest input of fft whose samples are 0 or 1 (of every length)
MaxN == 8
\* pisolg: every N of at most SmallBits binary digits is an input
SmallBits == 4
\* pisolg: the inputs 2^(L-1), 2^(L-1) + 1 and 2^L - 1 go up to L = MaxBits
MaxBits == 55
\* rec_soma, rec_soma_esqdir: longest list A, largest magnitude of a term
MaxA == 3
MaxE == 1
\* linearity of fft: longest sequences x and y, largest sample of x,
\* largest coordinate of the scalar a
MaxLinLen == 4
LinV == 1
LinS == 1

\* significant binary digits of a Python float (IEEE 754 double)
DBL_MANT_DIG == 53

\* ------------------------------------------------------- exact arithmetic
RECURSIVE Pow2Floor(_)
\* the largest power of two that is <= n (n >= 1)
Pow2Floor(n) == IF n <= 1 THEN 1 ELSE 2 * Pow2Floor(n \div 2)

RECURSIVE IsPow2(_)
IsPow2(n) == IF n <= 0 THEN FALSE
             ELSE IF n = 1 THEN TRUE
             ELSE n % 2 = 0 /\ IsPow2(n \div 2)

RECURSIVE Log2(_)
\* floor of the base-2 logarithm of n >= 1
Log2(n) == IF n <= 1 THEN 0 ELSE 1 + Log2(n \div 2)

Maximum(a, b) == IF a >= b THEN a ELSE b

\* order of the root of unity w: the largest power-of-two length in range
W == Maximum(4, Pow2Floor(Maximum(MaxLen, MaxN)))
\* number of coordinates of a complex value
H == W \div 2

\* the complex number re + im*i   (i = w^(W/4))
Cplx(re, im) == [r \in 1..H |-> IF r = 1 THEN re
                                ELSE IF r = (H \div 2) + 1 THEN im ELSE 0]
CZero == Cplx(0, 0)
COne == Cplx(1, 0)
CAdd(u, v) == [r \in 1..H |-> u[r] + v[r]]
CSub(u, v) == [r \in 1..H |-> u[r] - v[r]]

RECURSIVE MulCoord(_, _, _, _)
\* coordinate r0 (0-based) of u*v: the terms u[a]*v[b] with a + b = r0, and
\* with a + b = r0 + H negated (w^H = -1); summed over a = 0..n-1
MulCoord(u, v, r0, n) ==
    IF n = 0 THEN 0
    ELSE LET a == n - 1
             b == (r0 - a) % H
             t == u[a + 1] * v[b + 1]
         IN  MulCoord(u, v, r0, n - 1) + (IF a <= r0 THEN t ELSE 0 - t)
CMul(u, v) == [r \in 1..H |-> MulCoord(u, v, r - 1, H)]

\* w^e for any integer e
Root(e) == LET m == e % W
           IN  [r \in 1..H |-> IF m < H THEN (IF r = m + 1 THEN 1 ELSE 0)
                               ELSE (IF r = m - H + 1 THEN 0 - 1 ELSE 0)]

\* variant of CExp: the exponent with the opposite sign, exp(+2j*pi*k/N)
CExpPositive(k, N) == Root(k * (W \div N))

\* exp(-2j * pi * k / N), for N a power of two that divides W
CExp(k, N) == Root(0 - (k * (W \div N)))

\* element-wise array arithmetic of equal-length arrays
VAdd(X, Y) == [k \in 1..Len(X) |-> CAdd(X[k], Y[k])]
VSub(X, Y) == [k \in 1..Len(X) |-> CSub(X[k], Y[k])]
VMul(X, Y) == [k \in 1..Len(X) |-> CMul(X[k], Y[k])]
\* scalar times array
VScale(a, X) == [k \in 1..Len(X) |-> CMul(a, X[k])]

\* ------------------------------------------------------------ fft helpers
\* x[::2]
EvenSlice(x) == [k \in 1..((Len(x) + 1) \div 2) |-> x[2 * k - 1]]
\* variant of OddSlice: x[1:]
OddSliceTail(x) == [k \in 1..(Len(x) - 1) |-> x[k + 1]]
\* x[1::2]
OddSlice(x) == [k \in 1..(Len(x) \div 2) |-> x[2 * k]]
\* factor = np.exp(-2j * np.pi * np.arange(N) / N)
factor(N) == [k \in 1..N |-> CExp(k - 1, N)]
\* variant of Combine: the first half only, without the concatenation
CombineFirstHalf(X_even, X_odd, N) ==
    VAdd(X_even, VMul(SubSeq(factor(N), 1, N \div 2), X_odd))
\* variant of Combine: factor[:N // 2] + X_odd in place of the product
CombineAddTwiddle(X_even, X_odd, N) ==
    LET t == VAdd(SubSeq(factor(N), 1, N \div 2), X_odd)
    IN  VAdd(X_even, t) \o VSub(X_even, t)

\* np.concatenate([X_even + factor[:N // 2] * X_odd,
\*                 X_even - factor[:N // 2] * X_odd])
Combine(X_even, X_odd, N) ==
    LET t == VMul(SubSeq(factor(N), 1, N \div 2), X_odd)
    IN  VAdd(X_even, t) \o VSub(X_even, t)

\* the outcome of a call: the value it returned, or the exception it raised
Returned(v) == [exc |-> "", val |-> v]
Raised(e) == [exc |-> e, val |-> <<>>]

\* an optional value
None == <<>>
Some(v) == <<v>>

RECURSIVE fft(_)
\* the function fft: the outcome of fft(x)
fft(x) ==
    LET N == Len(x)
    IN  IF N <= 1 THEN Returned(x)
        ELSE IF N % 2 # 0 THEN Raised("ValueError")
        ELSE LET X_even == fft(EvenSlice(x))
             IN  IF X_even.exc # "" THEN X_even
                 ELSE LET X_odd == fft(OddSlice(x))
                      IN  IF X_odd.exc # "" THEN X_odd
                          ELSE Returned(Combine(X_even.val, X_odd.val, N))

\* ------------------------------------------------------------------ state
VARIABLES
    x0,        \* the argument of the top-level call of fft
    stack,     \* the active calls of fft, the top-level call first
    status,    \* "running", "unwinding" (an exception in flight),
               \* "returned" or "raised"
    result,    \* what the top-level call returned
    calls,     \* number of calls of fft started so far
    combines,  \* number of executions of lines 14-17 so far
    raisedAt,  \* depth of the call that raised (0: none, 1: top-level)
    raisedN,   \* length of the argument of the call that raised
    lastRet,   \* argument and value of the latest call that returned
    \* pisolg
    pN,        \* the argument N: [neg |-> BOOLEAN, bits |-> binary digits]
    pn,        \* the local n, in binary digits
    pi,        \* the local i
    ppc,       \* "entry", "loop", "returned" or "raised"
    pret,      \* the value pisolg returned
    \* rec_soma, rec_soma_esqdir and the linearity of fft: one application
    args,      \* the arguments of the call
    out        \* what the call produced

fftVars == <<x0, stack, status, result, calls, combines, raisedAt, raisedN,
             lastRet>>
pisolgVars == <<pN, pn, pi, ppc, pret>>
appVars == <<args, out>>
vars == <<x0, stack, status, result, calls, combines, raisedAt, raisedN,
          lastRet, pN, pn, pi, ppc, pret, args, out>>

NoSeq == <<>>

\* the state of a program that is not the one being run
IdleFft ==
    /\ x0 = <<>> /\ stack = <<>> /\ status = "idle" /\ result = None
    /\ calls = 0 /\ combines = 0 /\ raisedAt = 0 /\ raisedN = 0
    /\ lastRet = None
IdlePisolg ==
    /\ pN = [neg |-> FALSE, bits |-> <<>>] /\ pn = <<>> /\ pi = 0
    /\ ppc = "idle" /\ pret = None
IdleApp == args = None /\ out = None

\* a call of fft that has just been entered with argument x
Frame(x) == [x |-> x, pc |-> "entry", X_even |-> NoSeq, X_odd |-> NoSeq]

GaussSamples == {Cplx(re, im) : re \in (0 - MaxV)..MaxV, im \in 0..MaxV}
BitSamples == {CZero, COne}
GaussLengths == {L \in 0..MaxLen : L = 0 \/ IsPow2(L)}
GaussInputs == UNION {[1..n -> GaussSamples] : n \in GaussLengths}
BitInputs == UNION {[1..n -> BitSamples] : n \in 0..MaxN}

fftStart(x) ==
    /\ x0 = x
    /\ stack = <<Frame(x)>>
    /\ status = "running"
    /\ result = None
    /\ calls = 1
    /\ combines = 0
    /\ raisedAt = 0
    /\ raisedN = 0
    /\ lastRet = None
    /\ IdlePisolg /\ IdleApp

InitFft == \E x \in GaussInputs \cup BitInputs : fftStart(x)
InitFftSizes == \E x \in BitInputs : fftStart(x)

Top == stack[Len(stack)]
Pop == SubSeq(stack, 1, Len(stack) - 1)

\* the call on top of the stack returns v to its caller
Return(v) ==
    /\ lastRet' = Some([x |-> Top.x, v |-> v])
    /\ IF Len(stack) = 1
       THEN /\ stack' = <<>>
            /\ status' = "returned"
            /\ result' = Some(v)
       ELSE LET caller == stack[Len(stack) - 1]
                resumed == IF caller.pc = "wait_even"
                           THEN [caller EXCEPT !.X_even = v, !.pc = "call_odd"]
                           ELSE [caller EXCEPT !.X_odd = v, !.pc = "combine"]
            IN  /\ stack' = [Pop EXCEPT ![Len(stack) - 1] = resumed]
                /\ status' = "running"
                /\ result' = result

\* lines 6-8: N <= 1, return x
Base ==
    /\ status = "running" /\ stack # <<>>
    /\ Top.pc = "entry"
    /\ Len(Top.x) <= 1
    /\ Return(Top.x)
    /\ UNCHANGED <<x0, calls, combines, raisedAt, raisedN, pisolgVars,
                   appVars>>

\* variant of Raise: an odd length is let through, the call returns x
RaiseReturnsInput ==
    /\ status = "running" /\ stack # <<>>
    /\ Top.pc = "entry"
    /\ Len(Top.x) > 1
    /\ Len(Top.x) % 2 # 0
    /\ Return(Top.x)
    /\ UNCHANGED <<x0, calls, combines, raisedAt, raisedN, pisolgVars,
                   appVars>>

\* variant of Raise: the parity test comes before the test N <= 1
RaiseBeforeBase ==
    /\ status = "running" /\ stack # <<>>
    /\ Top.pc = "entry"
    /\ Len(Top.x) % 2 # 0
    /\ status' = "unwinding"
    /\ raisedAt' = Len(stack)
    /\ raisedN' = Len(Top.x)
    /\ UNCHANGED <<x0, stack, result, calls, combines, lastRet, pisolgVars,
                   appVars>>

\* lines 9-10: N odd, raise ValueError
Raise ==
    /\ status = "running" /\ stack # <<>>
    /\ Top.pc = "entry"
    /\ Len(Top.x) > 1
    /\ Len(Top.x) % 2 # 0
    /\ status' = "unwinding"
    /\ raisedAt' = Len(stack)
    /\ raisedN' = Len(Top.x)
    /\ UNCHANGED <<x0, stack, result, calls, combines, lastRet, pisolgVars,
                   appVars>>

\* variant of CallEven: the recursion starts whatever the parity of N
CallEvenUnchecked ==
    /\ status = "running" /\ stack # <<>>
    /\ Top.pc = "entry"
    /\ Len(Top.x) > 1
    /\ stack' = [stack EXCEPT ![Len(stack)].pc = "wait_even"]
                   \o <<Frame(EvenSlice(Top.x))>>
    /\ calls' = calls + 1
    /\ UNCHANGED <<x0, status, result, combines, raisedAt, raisedN, lastRet,
                   pisolgVars, appVars>>

\* line 12: call fft(x[::2])
CallEven ==
    /\ status = "running" /\ stack # <<>>
    /\ Top.pc = "entry"
    /\ Len(Top.x) > 1
    /\ Len(Top.x) % 2 = 0
    /\ stack' = [stack EXCEPT ![Len(stack)].pc = "wait_even"]
                   \o <<Frame(EvenSlice(Top.x))>>
    /\ calls' = calls + 1
    /\ UNCHANGED <<x0, status, result, combines, raisedAt, raisedN, lastRet,
                   pisolgVars, appVars>>

\* line 13: call fft(x[1::2])
CallOdd ==
    /\ status = "running" /\ stack # <<>>
    /\ Top.pc = "call_odd"
    /\ stack' = [stack EXCEPT ![Len(stack)].pc = "wait_odd"]
                   \o <<Frame(OddSlice(Top.x))>>
    /\ calls' = calls + 1
    /\ UNCHANGED <<x0, status, result, combines, raisedAt, raisedN, lastRet,
                   pisolgVars, appVars>>

\* lines 14-17: the twiddle factors, the butterflies, return
CombineStep ==
    /\ status = "running" /\ stack # <<>>
    /\ Top.pc = "combine"
    /\ combines' = combines + 1
    /\ Return(Combine(Top.X_even, Top.X_odd, Len(Top.x)))
    /\ UNCHANGED <<x0, calls, raisedAt, raisedN, pisolgVars, appVars>>

\* no call of fft catches the exception: it leaves the call on top
Unwind ==
    /\ status = "unwinding"
    /\ stack # <<>>
    /\ stack' = Pop
    /\ status' = IF Len(stack) = 1 THEN "raised" ELSE "unwinding"
    /\ UNCHANGED <<x0, result, calls, combines, raisedAt, raisedN, lastRet,
                   pisolgVars, appVars>>

NextFft == Base \/ Raise \/ CallEven \/ CallOdd \/ CombineStep \/ Unwind

SpecFft == InitFft /\ [][NextFft]_vars
\* the interpreter always executes the next step of the running program
FairSpecFft == InitFftSizes /\ [][NextFft]_vars /\ WF_vars(NextFft)

\* ---------------------------------------------------------------- pisolg
\* Python integers are unbounded: a natural number is the sequence of its
\* binary digits, most significant first, with no leading zero (0 is <<>>).
Zeros(k) == [j \in 1..k |-> 0]
Ones(k) == [j \in 1..k |-> 1]
\* 2^k
Pow2Bits(k) == <<1>> \o Zeros(k)
\* a * 2
Double(a) == IF a = <<>> THEN <<>> ELSE Append(a, 0)

RECURSIVE LexLeq(_, _, _)
\* a[j..] <= b[j..] digit by digit, for a and b of the same length
LexLeq(a, b, j) ==
    IF j > Len(a) THEN TRUE
    ELSE IF a[j] # b[j] THEN a[j] < b[j]
    ELSE LexLeq(a, b, j + 1)
\* a <= b
LeqBits(a, b) ==
    \/ Len(a) < Len(b)
    \/ Len(a) = Len(b) /\ LexLeq(a, b, 1)

RECURSIVE IncBits(_)
\* a + 1
IncBits(a) ==
    IF a = <<>> THEN <<1>>
    ELSE IF a[Len(a)] = 0 THEN [a EXCEPT ![Len(a)] = 1]
    ELSE Append(IncBits(SubSeq(a, 1, Len(a) - 1)), 0)

\* A float is m * 2^e: m a natural of at most DBL_MANT_DIG significant
\* digits, e an integer.  ToFloat(a) is the float nearest to the natural a,
\* ties to even.
ToFloat(a) ==
    IF Len(a) <= DBL_MANT_DIG THEN [m |-> a, e |-> 0]
    ELSE LET top == SubSeq(a, 1, DBL_MANT_DIG)
             rest == SubSeq(a, DBL_MANT_DIG + 1, Len(a))
             sticky == \E j \in 2..Len(rest) : rest[j] = 1
             up == rest[1] = 1 /\ (sticky \/ top[DBL_MANT_DIG] = 1)
         IN  [m |-> IF up THEN IncBits(top) ELSE top, e |-> Len(rest)]
\* N / 2 for a natural N > 0: the correctly rounded quotient
TrueDiv2(a) == [ToFloat(a) EXCEPT !.e = @ - 1]
\* n <= f for a natural n > 0 and a float f with f.e >= -1; Python compares
\* an int with a float exactly
IntLeqFloat(n, f) ==
    IF f.e >= 0 THEN LeqBits(n, f.m \o Zeros(f.e))
    ELSE LeqBits(Double(n), f.m)

Positive(N) == ~N.neg /\ N.bits # <<>>

Numerals(k) == {b \in UNION {[1..L -> {0, 1}] : L \in 0..k} :
                   b = <<>> \/ b[1] = 1}
PisolgInputs ==
    {[neg |-> s, bits |-> b] : s \in BOOLEAN, b \in Numerals(SmallBits)}
    \cup {[neg |-> FALSE, bits |-> Pow2Bits(L - 1)] : L \in 1..MaxBits}
    \cup {[neg |-> FALSE, bits |-> Append(Pow2Bits(L - 2), 1)] :
             L \in 2..MaxBits}
    \cup {[neg |-> FALSE, bits |-> Ones(L)] : L \in 1..MaxBits}

InitPisolg ==
    /\ pN \in PisolgInputs
    /\ pn = <<>> /\ pi = 0 /\ ppc = "entry" /\ pret = None
    /\ IdleFft /\ IdleApp

\* lines 5-8: n = 1, i = 0, N <= 0: raise
PRaise ==
    /\ ppc = "entry"
    /\ ~Positive(pN)
    /\ pn' = <<1>> /\ pi' = 0
    /\ ppc' = "raised"
    /\ UNCHANGED <<pN, pret, fftVars, appVars>>

\* lines 5-7: n = 1, i = 0, N > 0
PEnter ==
    /\ ppc = "entry"
    /\ Positive(pN)
    /\ pn' = <<1>> /\ pi' = 0
    /\ ppc' = "loop"
    /\ UNCHANGED <<pN, pret, fftVars, appVars>>

\* lines 9-11: while n <= N/2: n = n*2; i += 1
PLoop ==
    /\ ppc = "loop"
    /\ IntLeqFloat(pn, TrueDiv2(pN.bits))
    /\ pn' = Double(pn)
    /\ pi' = pi + 1
    /\ UNCHANGED <<pN, ppc, pret, fftVars, appVars>>

\* lines 9, 12: the loop ends, return i
PExit ==
    /\ ppc = "loop"
    /\ ~IntLeqFloat(pn, TrueDiv2(pN.bits))
    /\ ppc' = "returned"
    /\ pret' = Some(pi)
    /\ UNCHANGED <<pN, pn, pi, fftVars, appVars>>

NextPisolg == PRaise \/ PEnter \/ PLoop \/ PExit
SpecPisolg == InitPisolg /\ [][NextPisolg]_vars

\* ------------------------------------------- rec_soma and rec_soma_esqdir
\* A[k] on a Python list
Index(A, k) ==
    IF 0 <= k /\ k < Len(A) THEN Returned(A[k + 1])
    ELSE IF k < 0 /\ 0 - k <= Len(A) THEN Returned(A[Len(A) + k + 1])
    ELSE Raised("IndexError")

RECURSIVE rec_soma(_, _)
\* the outcome of rec_soma(n, A); below 0 the recursion never reaches n == 0
rec_soma(n, A) ==
    IF n < 0 THEN Raised("RecursionError")
    ELSE IF n = 0 THEN Index(A, n)
    ELSE LET r == rec_soma(n - 1, A)
         IN  IF r.exc # "" THEN r
             ELSE LET a == Index(A, n)
                  IN  IF a.exc # "" THEN a ELSE Returned(r.val + a.val)

RECURSIVE rec_soma_esqdir(_, _, _)
\* the outcome of rec_soma_esqdir(k, n, A)
rec_soma_esqdir(k, n, A) ==
    IF k > n THEN Returned(0)
    ELSE LET r == rec_soma_esqdir(k + 1, n, A)
         IN  IF r.exc # "" THEN r
             ELSE LET a == Index(A, k)
                  IN  IF a.exc # "" THEN a ELSE Returned(r.val + a.val)

Lists == UNION {[1..L -> (0 - MaxE)..MaxE] : L \in 0..MaxA}

InitSoma ==
    /\ \E n \in (0 - 1)..MaxA, A \in Lists : args = [n |-> n, A |-> A]
    /\ out = None
    /\ IdleFft /\ IdlePisolg

\* the call rec_soma(n, A)
CallRecSoma ==
    /\ out = None
    /\ out' = Some(rec_soma(args.n, args.A))
    /\ UNCHANGED <<args, fftVars, pisolgVars>>

NextSoma == CallRecSoma
SpecSoma == InitSoma /\ [][NextSoma]_vars

InitEsqdir ==
    /\ \E k \in (0 - 1)..(MaxA + 1), n \in 0..MaxA, A \in Lists :
          args = [k |-> k, n |-> n, A |-> A]
    /\ out = None
    /\ IdleFft /\ IdlePisolg

\* the call rec_soma_esqdir(k, n, A)
CallRecSomaEsqdir ==
    /\ out = None
    /\ out' = Some(rec_soma_esqdir(args.k, args.n, args.A))
    /\ UNCHANGED <<args, fftVars, pisolgVars>>

NextEsqdir == CallRecSomaEsqdir
SpecEsqdir == InitEsqdir /\ [][NextEsqdir]_vars

\* ------------------------------------------------------- linearity of fft
\* the scalars a and b, the samples of x (real) and of y (imaginary), and
\* the lengths of x and y (the powers of two)
LinScalarsA == {Cplx(re, im) : re \in (0 - LinS)..LinS, im \in 0..LinS}
LinScalarsB == {Cplx(0 - 1, 0), Cplx(1, 1)}
LinSamplesX == {Cplx(re, 0) : re \in 0..LinV}
LinSamplesY == {CZero, Cplx(0, 1)}
LinLengths == {L \in 1..MaxLinLen : IsPow2(L)}

InitLinear ==
    /\ \E L \in LinLengths :
          \E a \in LinScalarsA, b \in LinScalarsB,
             x \in [1..L -> LinSamplesX], y \in [1..L -> LinSamplesY] :
                args = [a |-> a, b |-> b, x |-> x, y |-> y]
    /\ out = None
    /\ IdleFft /\ IdlePisolg

\* the calls fft(a*x + b*y), fft(x) and fft(y)
CallFftLinear ==
    /\ out = None
    /\ out' = Some([sum |-> fft(VAdd(VScale(args.a, args.x),
                                     VScale(args.b, args.y))),
                    fx |-> fft(args.x),
                    fy |-> fft(args.y)])
    /\ UNCHANGED <<args, fftVars, pisolgVars>>

NextLinear == CallFftLinear
SpecLinear == InitLinear /\ [][NextLinear]_vars

\* ------------------------------------------------------------ definitions
N0 == Len(x0)

\* the discrete Fourier transform, from its definition:
\* DFT(x)[j] = sum over n in 0..N-1 of x[n] * exp(-2*pi*i*j*n/N)
RECURSIVE DFTSum(_, _, _)
DFTSum(x, j, n) ==
    IF n = 0 THEN CZero
    ELSE CAdd(DFTSum(x, j, n - 1),
              CMul(x[n], Root(0 - (j * (n - 1) * (W \div Len(x))))))
DFT(x) == [j \in 1..Len(x) |-> DFTSum(x, j - 1, Len(x))]


\* a length on which fft returns: 0, 1 or a power of two
GoodSize(n) == n <= 1 \/ IsPow2(n)
Terminated == status \in {"returned", "raised"}
Failing == status \in {"unwinding", "raised"}

\* ------------------------------------------------------------ claims: fft
\* C1: on an input whose length is a power of two, fft returns the
\* unnormalized forward discrete Fourier transform of its input; in
\* particular fft([a, b]) = [a+b, a-b], fft([1,0,0,0]) = [1,1,1,1] and
\* fft([1,1,1,1]) = [4,0,0,0].
C1_ReturnsDFT ==
    (status = "returned" /\ IsPow2(N0)) =>
        /\ result = Some(DFT(x0))
        /\ N0 = 2 =>
              result = Some(<<CAdd(x0[1], x0[2]), CSub(x0[1], x0[2])>>)
        /\ x0 = <<COne, CZero, CZero, CZero>> =>
              result = Some(<<COne, COne, COne, COne>>)
        /\ x0 = <<COne, COne, COne, COne>> =>
              result = Some(<<Cplx(4, 0), CZero, CZero, CZero>>)

\* fft([1,1,1,1]) has returned [4,0,0,0]
C1_Witness ==
    /\ status = "returned"
    /\ x0 = <<COne, COne, COne, COne>>
    /\ result = Some(<<Cplx(4, 0), CZero, CZero, CZero>>)

\* C2: on an input of odd length > 1 the top-level call raises the size
\* error before any recursive call and before any combine step, and never
\* returns a value.
C2_OddRaisesAtTop ==
    (N0 > 1 /\ N0 % 2 # 0) =>
        /\ status # "returned"
        /\ result = None
        /\ calls = 1
        /\ combines = 0
        /\ status = "running" => stack = <<Frame(x0)>>
        /\ Failing => (raisedAt = 1 /\ raisedN = N0)

\* fft of a sequence of length 3 has raised
C2_Witness == N0 = 3 /\ status = "raised" /\ raisedAt = 1

\* C3: fft returns iff the length is 0, 1 or a power of two; for an even
\* length that is not a power of two the error is raised in a nested call
\* on an odd length > 1, no call catches it, and nothing is returned.
C3_ReturnsIffGoodSize ==
    /\ status = "returned" => (GoodSize(N0) /\ Len(result[1]) = N0)
    /\ Failing =>
          /\ ~GoodSize(N0)
          /\ result = None
          /\ raisedN > 1 /\ raisedN % 2 # 0
          /\ Len(stack) <= raisedAt
          /\ N0 % 2 = 0 => raisedAt > 1
    /\ status = "raised" => stack = <<>>
    /\ stack = <<>> => Terminated

\* fft of a sequence of length 6 has raised from a nested call on length 3
C3_Witness ==
    N0 = 6 /\ status = "raised" /\ raisedAt = 2 /\ raisedN = 3

\* C4: on an input of length 0 or 1 fft returns its input unchanged, with
\* no recursive call and no error.
C4_BaseCase ==
    N0 <= 1 =>
        /\ status \in {"running", "returned"}
        /\ calls = 1
        /\ combines = 0
        /\ status = "running" => stack = <<Frame(x0)>>
        /\ status = "returned" => result = Some(x0)

\* fft([-1+i]) has returned
C4_Witness ==
    status = "returned" /\ x0 = <<Cplx(0 - 1, 1)>> /\ result = Some(x0)

\* C5: on a power-of-two input every call of the recursion returns a
\* sequence as long as its argument, and the two sub-sequences of a call on
\* N samples, and their transforms, have N/2 elements each.
C5_LengthPreserved ==
    IsPow2(N0) =>
        /\ lastRet # None => Len(lastRet[1].v) = Len(lastRet[1].x)
        /\ status = "returned" => Len(result[1]) = N0
        /\ \A d \in 1..Len(stack) :
              LET f == stack[d]
                  half == Len(f.x) \div 2
              IN  /\ d > 1 => Len(f.x) * 2 = Len(stack[d - 1].x)
                  /\ f.pc # "entry" =>
                        /\ Len(EvenSlice(f.x)) = half
                        /\ Len(OddSlice(f.x)) = half
                  /\ f.pc \in {"call_odd", "wait_odd", "combine"} =>
                        Len(f.X_even) = half
                  /\ f.pc = "combine" => Len(f.X_odd) = half

\* inside fft of 8 samples, a nested call on 4 samples has returned 4 values
C5_Witness ==
    /\ N0 = 8 /\ status = "running"
    /\ lastRet # None /\ Len(lastRet[1].x) = 4 /\ Len(lastRet[1].v) = 4

\* C10: every call of fft terminates; on a power-of-two length it returns;
\* every nested call receives exactly half of its caller's sequence, and on
\* N = 2^k samples no chain of nested calls is deeper than k.
C10_Terminates ==
    /\ <>Terminated
    /\ (IsPow2(N0) ~> status = "returned")
    /\ [](\A d \in 2..Len(stack) :
             /\ Len(stack[d].x) < Len(stack[d - 1].x)
             /\ Len(stack[d].x) * 2 = Len(stack[d - 1].x))
    /\ [](IsPow2(N0) => Len(stack) - 1 <= Log2(N0))

\* fft of 8 samples is three calls deep
C10_Witness == N0 = 8 /\ Len(stack) - 1 = 3 /\ Len(Top.x) = 1

\* --------------------------------------------------- claims: linearity
\* C6: fft is linear: for scalars a, b and sequences x, y of the same
\* power-of-two length, fft(a*x + b*y) = a*fft(x) + b*fft(y).
C6_Linear ==
    (out # None /\ IsPow2(Len(args.x))) =>
        /\ out[1].sum.exc = "" /\ out[1].fx.exc = "" /\ out[1].fy.exc = ""
        /\ out[1].sum.val = VAdd(VScale(args.a, out[1].fx.val),
                                 VScale(args.b, out[1].fy.val))

\* the three transforms of a case with a = -1+i, b = 1+i on 4 samples
C6_Witness ==
    /\ out # None
    /\ args.a = Cplx(0 - 1, 1) /\ args.b = Cplx(1, 1)
    /\ args.x = <<COne, CZero, COne, COne>>
    /\ args.y = <<CZero, Cplx(0, 1), Cplx(0, 1), CZero>>
    /\ out[1].sum.exc = ""
    /\ out[1].sum.val[2] # CZero

\* ------------------------------------------------------ claims: pisolg
\* C7: for every positive N, pisolg(N) returns the i with
\* 2^i <= N < 2^(i+1), and n = 2^i and n <= N hold throughout the loop.
C7_FloorLog2 ==
    Positive(pN) =>
        /\ ppc # "raised"
        /\ ppc = "loop" => (pn = Pow2Bits(pi) /\ LeqBits(pn, pN.bits))
        /\ ppc = "returned" =>
              /\ LeqBits(Pow2Bits(pret[1]), pN.bits)
              /\ ~LeqBits(Pow2Bits(pret[1] + 1), pN.bits)

\* ---------------------------------------------------- claims: rec_soma
RECURSIVE SumOver(_, _)
\* the sum of the terms of A at the positions S
SumOver(A, S) ==
    IF S = {} THEN 0
    ELSE LET j == CHOOSE j \in S : TRUE
         IN  A[j] + SumOver(A, S \ {j})

\* C8: for 0 <= n < len(A), rec_soma(n, A) returns the sum of exactly n
\* terms of A.
C8_SumOfNTerms ==
    (out # None /\ 0 <= args.n /\ args.n < Len(args.A)) =>
        /\ out[1].exc = ""
        /\ \E S \in SUBSET (1..Len(args.A)) :
              /\ Cardinality(S) = args.n
              /\ out[1].val = SumOver(args.A, S)

\* C9: for a list A of exactly n terms and 0 <= k <= n,
\* rec_soma_esqdir(k, n, A) returns without error the sum of k terms of A.
C9_SumOfKTerms ==
    (out # None /\ Len(args.A) = args.n /\ 0 <= args.k /\ args.k <= args.n) =>
        /\ out[1].exc = ""
        /\ \E S \in SUBSET (1..Len(args.A)) :
              /\ Cardinality(S) = args.k
              /\ out[1].val = SumOver(args.A, S)

====
